---- MODULE Spec2Model ----
(***************************************************************************)
(* TravelOps: the conversational travel agent.                             *)
(*                                                                         *)
(*   src/src/main.py                      the HTTP handlers (chat, ...)    *)
(*   src/src/agents/state.py              AgentState, TravelState, ...     *)
(*   src/src/agents/nodes/Orchestrator.py intent classifier and router     *)
(*   src/src/agents/nodes/Travel.py       the travel sub-workflow's steps  *)
(*                                                                         *)
(* The compiled workflow (src/graph.py, create_agent) is not among the     *)
(* source files: the wiring of the steps and the suspend/resume engine are *)
(* modelled from the specification (sections 2, 4 and 5) and from the way  *)
(* main.py uses the agent object (aget_state, ainvoke, state.next,         *)
(* state.tasks[..].interrupts).                                            *)
(*                                                                         *)
(* Two specifications:                                                     *)
(*   GraphSpec  one conversation's workflow, step by step, as the agent    *)
(*              runs it for ainvoke(input_state) and for                   *)
(*              ainvoke(Command(resume=..)); the persisted checkpoint it   *)
(*              starts from and the collaborators' answers are drawn from  *)
(*              bounded sets.                                              *)
(*   Spec       the HTTP handlers of main.py over the state store.         *)
(*   ExecSpec   one invocation of the Research Executor, await by await.   *)
(***************************************************************************)
EXTENDS Integers, Sequences, FiniteSets, TLC

VARIABLES
    values,     \* GraphSpec: the conversation's shared state (a dict)
    next,       \* GraphSpec: the pending step of the checkpoint, or END
    interrupt,  \* GraphSpec: the payload of the pending interrupt, or Absent
    running,    \* GraphSpec: an ainvoke is executing steps
    resume,     \* GraphSpec: the resume value the running ainvoke carries
    outcome,    \* GraphSpec: how the latest ainvoke ended
    last,       \* GraphSpec: the latest step executed, what it saw and returned
    turn,       \* GraphSpec: the latest ainvoke: its kind, its input, the step it starts at
    store,      \* Spec: the state store, conversation id -> checkpoint
    resp,       \* Spec: the latest HTTP exchange (request and response)
    exec        \* ExecSpec: one invocation of the Research Executor

gvars == <<values, next, interrupt, running, resume, outcome, last, turn>>
hvars == <<store, resp>>
vars == <<values, next, interrupt, running, resume, outcome, last, turn, store, resp,
          exec>>

NoExec == [pc |-> "none"]

----------------------------------------------------------------------------
(* Python values.  A dict key is absent, holds None, or holds a value.     *)

Absent == [tag |-> "absent"]
None == [tag |-> "none"]
V(x) == [tag |-> "val", v |-> x]
\* a reference to a function object (not the value the function returns)
FnRef(name) == [tag |-> "fn", name |-> name]

IsVal(x) == x.tag = "val"

\* dict.get(key, default): the default only replaces an absent key
Get(d, key, default) == IF d[key] = Absent THEN default ELSE d[key]

\* Python truthiness of the values a string-, number-, bool- or list-valued
\* key holds
TruthyStr(x) == IsVal(x) /\ x.v # ""
TruthyNum(x) == IsVal(x) /\ x.v # 0
TruthyBool(x) == IsVal(x) /\ x.v = TRUE
TruthyList(x) == IsVal(x) /\ x.v # <<>>
TruthyAny(x) == x.tag \in {"val", "fn"}

\* an entry of an errors list: the f-string's text, with the number or the
\* list it was formatted with
Err(text, n, items) == [text |-> text, n |-> n, items |-> items]

\* a piece of text: a plain string, or the structured prompt of the approval step
Text(s) == [str |-> s]

\* a str (its text) and a dict (its keys' texts), where isinstance(x, dict)
\* tells them apart
PyStr(text) == [type |-> "str", text |-> text, dict |-> [k \in {} |-> Text("")]]
PyDict(d) == [type |-> "dict", text |-> Text(""), dict |-> d]

\* an update no key of which is set (also: a step returning None)
NoUpdate == [k \in {} |-> Absent]

END == "__end__"

----------------------------------------------------------------------------
(* state.py                                                                *)

Keys ==
    { "user_query", "user_phone", "intent", "travel_state", "reminder_state",
      "final_response", "messages",
      "origin", "destination", "departure_date", "return_date", "budget_npr",
      "adults", "constraints_complete", "missing_constraints",
      "weather_data", "flight_options", "hotel_options",
      "budget_feasible", "approval_prompt", "user_approved",
      "selected_flight_idx", "selected_hotel_idx", "whatsapp_sent", "errors" }

\* the state of a conversation no turn of which has run: every key absent
EmptyState == [k \in Keys |-> Absent]

create_empty_travel_state ==
    [ adults |-> 1,
      constraints_complete |-> FALSE,
      missing_constraints |-> <<>>,
      estimated_cost_npr |-> 0,
      budget_feasible |-> FALSE,
      whatsapp_sent |-> FALSE,
      errors |-> <<>>,
      retry_count |-> 0 ]

\* ExtractedConstraints.is_complete: all(required) and not missing_fields.
\* all() tests truthiness, so "" and 0 count as missing.
is_complete(e) ==
    /\ TruthyStr(e.origin)
    /\ TruthyStr(e.destination)
    /\ TruthyStr(e.departure_date)
    /\ TruthyNum(e.budget_npr)
    /\ e.missing_fields = <<>>

----------------------------------------------------------------------------
(* src/agents/utils.py is not among the source files.  The two helpers the *)
(* extraction step calls are modelled from section 4.3 of the              *)
(* specification: a lookup that answers None for what it does not know.    *)

AirportTable == [ Kathmandu |-> "KTM", Pokhara |-> "PKR", KTM |-> "KTM", PKR |-> "PKR" ]

resolve_airport_code(name) ==
    IF name \in DOMAIN AirportTable THEN V(AirportTable[name]) ELSE None

DateTable == [ tomorrow |-> "2026-01-10" ]

parse_natural_date(text) ==
    IF text \in DOMAIN DateTable THEN V(DateTable[text]) ELSE None

\* Python's  a or b  on optional strings
OrStr(a, b) == IF TruthyStr(a) THEN a ELSE b

\* datetime.date.fromisoformat, as the day number of the dates in use;
\* Absent stands for the ValueError it raises on any other text
IsoDay == [ d \in {"2026-01-10", "2026-01-12"} |-> IF d = "2026-01-10" THEN 10 ELSE 12 ]

fromisoformat(text) == IF text \in DOMAIN IsoDay THEN V(IsoDay[text]) ELSE Absent

----------------------------------------------------------------------------
(* What a step hands back to the engine.                                   *)
(*   update     a partial state update (a dict)                            *)
(*   command    Command(goto=.., update=..)                                *)
(*   none       the function fell off its end: Python returns None         *)
(*   raise      an exception left the function                             *)
(*   interrupt  interrupt(payload) was called and no resume value is there *)

(*   calls      the external tools the step invoked on the way              *)

Ret(kind, goto, u, p, calls) ==
    [kind |-> kind, goto |-> goto, update |-> u, payload |-> p, calls |-> calls]

RetUpdate(u) == Ret("update", "", u, Absent, {})
RetCommand(goto, u) == Ret("command", goto, u, Absent, {})
RetNone == Ret("none", "", NoUpdate, Absent, {})
RetRaise(what) == Ret("raise", what, NoUpdate, Absent, {})
RetInterrupt(p) == Ret("interrupt", "", NoUpdate, V(p), {})

----------------------------------------------------------------------------
(* Orchestrator.py                                                         *)

Intents == {"travel_planning", "reminder", "creative", "unknown"}

\* llm: the classifier's answer, [ok |-> BOOLEAN, intent |-> ..]
classify_intent_node(state, llm) ==
    IF state["user_query"] = Absent
    THEN RetRaise("KeyError: user_query")          \* query = state["user_query"]
    ELSE LET intent == IF llm.ok THEN llm.intent ELSE "unknown"
         IN  RetUpdate(
                 IF intent = "travel_planning"
                 THEN [ intent |-> V(intent),
                        travel_state |-> FnRef("create_empty_travel_state") ]
                 ELSE IF intent = "reminder"
                 THEN [ intent |-> V(intent), reminder_state |-> V("{}") ]
                 ELSE [ intent |-> V(intent) ])

routing_map ==
    [ travel_planning |-> "travel_graph",
      reminder |-> "reminder_graph",
      creative |-> "creative_graph",
      unknown |-> "unknown_handler" ]

\* Absent as the result stands for the KeyError of state["intent"]
route_to_subgraph(state) ==
    IF state["intent"] = Absent
    THEN Absent
    ELSE IF IsVal(state["intent"]) /\ state["intent"].v \in DOMAIN routing_map
    THEN V(routing_map[state["intent"].v])
    ELSE V("unknown_handler")

unknown_handler_node(state) ==
    RetUpdate([ final_response |-> V("I'm a life admin assistant specialized in: ...") ])

----------------------------------------------------------------------------
(* Travel.py                                                               *)

RequiredFields == <<"origin", "destination", "departure_date", "budget_npr">>

\* lines 67-74: the post-processing of the classifier's answer
PostProcess(e) ==
    [ e EXCEPT
        !.origin = IF TruthyStr(@) THEN OrStr(resolve_airport_code(@.v), @) ELSE @,
        !.destination = IF TruthyStr(@) THEN OrStr(resolve_airport_code(@.v), @) ELSE @,
        !.departure_date = IF TruthyStr(@) THEN OrStr(parse_natural_date(@.v), @) ELSE @,
        !.return_date = IF TruthyStr(@) THEN OrStr(parse_natural_date(@.v), @) ELSE @ ]

\* llm: the structured-output call's answer, [ok |-> BOOLEAN, e |-> ExtractedConstraints]
extract_constraints_node(state, llm) ==
    IF ~TruthyStr(Get(state, "user_query", V("")))
    THEN RetUpdate([ constraints_complete |-> V(FALSE),
                     missing_constraints |-> V(<<"user_query">>) ])
    ELSE IF llm.ok
    THEN LET extracted == PostProcess(llm.e)
         IN  RetUpdate([ origin |-> extracted.origin,
                         destination |-> extracted.destination,
                         departure_date |-> extracted.departure_date,
                         return_date |-> extracted.return_date,
                         budget_npr |-> extracted.budget_npr,
                         adults |-> V(extracted.adults),
                         constraints_complete |-> V(is_complete(extracted)),
                         missing_constraints |-> V(extracted.missing_fields) ])
    \* line 93:  state.get("errors", []) + + [..]  applies unary plus to a
    \* list, a TypeError raised inside the except block
    ELSE RetRaise("TypeError: bad operand type for unary +: 'list'")

min_budget == 10000

\* A variant of Budget Validation that looks at completeness before the budget:
\* the policy's order (specification 4.4) tells it from the code.
validate_budget_completeness_first(state) ==
    IF ~TruthyBool(Get(state, "constraints_complete", None))
    THEN RetCommand("constraint_clarifier", NoUpdate)
    ELSE IF ~IsVal(Get(state, "budget_npr", V(0)))
    THEN RetRaise("TypeError: '<' not supported between NoneType and int")
    ELSE IF Get(state, "budget_npr", V(0)).v < min_budget
    THEN RetCommand(END, [ budget_feasible |-> V(FALSE),
                           errors |-> V(<<Err("Budget too low. Minimum needed: {min_budget}",
                                              min_budget, <<>>)>>) ])
    ELSE RetNone

\* A variant of Budget Validation whose clarifier directive carries an update.
validate_budget_marking_infeasible(state) ==
    IF ~IsVal(Get(state, "budget_npr", V(0)))
    THEN RetRaise("TypeError: '<' not supported between NoneType and int")
    ELSE IF Get(state, "budget_npr", V(0)).v < min_budget
    THEN RetCommand(END, [ budget_feasible |-> V(FALSE),
                           errors |-> V(<<Err("Budget too low. Minimum needed: {min_budget}",
                                              min_budget, <<>>)>>) ])
    ELSE IF ~TruthyBool(Get(state, "constraints_complete", None))
    THEN RetCommand("constraint_clarifier", [ budget_feasible |-> V(FALSE) ])
    ELSE RetNone

validate_budget_node(state) ==
    LET budget == Get(state, "budget_npr", V(0))
    IN  IF ~IsVal(budget)
        THEN RetRaise("TypeError: '<' not supported between NoneType and int")
        ELSE IF budget.v < min_budget
        THEN RetCommand(END,
                 [ budget_feasible |-> V(FALSE),
                   errors |-> V(<<Err("Budget too low. Minimum needed: {min_budget}",
                                      min_budget, <<>>)>>) ])
        ELSE IF ~TruthyBool(Get(state, "constraints_complete", None))
        THEN RetCommand("constraint_clarifier", NoUpdate)
        ELSE RetNone      \* prints "proceeding to research" and returns nothing

field_map ==
    [ origin |-> "departure city/airport",
      destination |-> "destination city/ airport",
      departure_date |-> "departure_date",
      budget_npr |-> "total budget (in NPR)" ]

Friendly(f) == IF f \in DOMAIN field_map THEN field_map[f] ELSE f

constraint_clarifier_node(state) ==
    LET missing == Get(state, "missing_constraints", V(<<>>))
        missing_friendly == [i \in 1..Len(missing.v) |-> Friendly(missing.v[i])]
    IN  IF ~IsVal(missing)
        THEN RetRaise("TypeError: 'NoneType' object is not iterable")
        ELSE RetUpdate([ errors |-> V(<<Err("Missing information: {}. Please provide these details to continue.",
                                            0, missing_friendly)>>) ])

\* the research tools' names (src/mcp/client.py, get_mcp_tools, is not among
\* the source files: a step sees the set of tools that are available)
ToolNames == {"get_weather", "search_flights", "search_hotels", "send_whatsapp_message"}

\* asyncio.wait_for(task, timeout=30) on one research task
\*   t.kind = "ok"         the task returned t.value; t.list: it is a list
\*   t.kind = "timeout"    asyncio.TimeoutError
\*   t.kind = "exception"  any other exception
TaskResult(t) ==
    IF t.kind = "ok" THEN [list |-> t.list, value |-> t.value]
    ELSE [list |-> FALSE, value |-> <<>>]        \* {"error": ..}: a dict

\* asyncio.sleep(0), the placeholder of a task that is not built, returns None
Placeholder == [kind |-> "ok", list |-> FALSE, value |-> <<>>]

\* x if isinstance(x, list) else []
AsList(r) == IF r.list THEN r.value ELSE <<>>

\* A variant of the Research Executor that joins its tasks with a gather that
\* lets the first failure abort the group.
research_executor_aborting_group(state, tools, out) ==
    IF \E k \in {"weather", "flights", "hotels"} : out[k].kind # "ok"
    THEN RetRaise("the first task failure leaves the gather")
    ELSE RetUpdate([ weather_data |-> V(AsList(TaskResult(out.weather))),
                     flight_options |-> V(AsList(TaskResult(out.flights))),
                     hotel_options |-> V(AsList(TaskResult(out.hotels))) ])

\* tools: the available tools; out: the outcome of each tool call, by slot
research_executor_node(state, tools, out) ==
    LET departure_date == state["departure_date"]
        return_date == Get(state, "return_date", None)
        budget == state["budget_npr"]
        use_weather == "get_weather" \in tools
        use_flight == "search_flights" \in tools
        use_hotel == "search_hotels" \in tools /\ TruthyStr(return_date)
        weather == IF use_weather THEN out.weather ELSE Placeholder
        flights == IF use_flight THEN out.flights ELSE Placeholder
        hotels == IF use_hotel THEN out.hotels ELSE Placeholder
    IN  IF \E k \in {"origin", "destination", "departure_date", "budget_npr"} :
               state[k] = Absent
        THEN RetRaise("KeyError")                  \* state["origin"], ...
        ELSE IF (use_flight \/ use_hotel) /\ ~IsVal(budget)
        THEN RetRaise("TypeError: NoneType * float")  \* budget * 0.6, budget * 0.4
        ELSE IF use_hotel
                /\ (~IsVal(departure_date) \/ fromisoformat(departure_date.v) = Absent
                    \/ fromisoformat(return_date.v) = Absent)
        THEN RetRaise("ValueError: Invalid isoformat string")
        ELSE Ret("update", "",
                 [ weather_data |-> V(AsList(TaskResult(weather))),
                   flight_options |-> V(AsList(TaskResult(flights))),
                   hotel_options |-> V(AsList(TaskResult(hotels))) ],
                 Absent,
                 (IF use_weather THEN {"get_weather"} ELSE {})
                 \cup (IF use_flight THEN {"search_flights"} ELSE {})
                 \cup (IF use_hotel THEN {"search_hotels"} ELSE {}))

\* min(f['price_npr'] for f in flights)
RECURSIVE MinPrice(_)
MinPrice(items) ==
    IF Len(items) = 1 THEN items[1].price
    ELSE LET m == MinPrice(Tail(items))
         IN  IF items[1].price < m THEN items[1].price ELSE m

\* lines 318-375: the prompt, as its sections.  The weather section is read
\* from the key "weather_date", which no step writes: it is always empty.
ApprovalPrompt(state, nights) ==
    LET flights == Get(state, "flight_options", V(<<>>))
        hotels == Get(state, "hotel_options", V(<<>>))
        total == MinPrice(flights.v) + MinPrice(hotels.v) * nights
    IN  [ weather |-> <<>>,
          flights |-> IF TruthyList(flights) THEN flights.v ELSE <<>>,
          hotels |-> IF TruthyList(hotels) THEN hotels.v ELSE <<>>,
          estimate |-> IF TruthyList(flights) /\ TruthyList(hotels)
                       THEN V([ total |-> total,
                                budget |-> state["budget_npr"].v,
                                within |-> total <= state["budget_npr"].v ])
                       ELSE Absent,
          question |-> "**Approve to proceed with booking?**" ]

\* A variant of the approval step that stores its prompt and returns without
\* suspending.
human_approval_without_interrupt(state, approval_input) ==
    RetUpdate([ approval_prompt |-> V(ApprovalPrompt(state, 1)) ])

\* approval_input: the value interrupt() returns, or Absent when none was delivered.
\* On a resume the engine runs the step again from its first line.
human_approval_node(state, approval_input) ==
    LET flights == Get(state, "flight_options", V(<<>>))
        hotels == Get(state, "hotel_options", V(<<>>))
        estimate == TruthyList(flights) /\ TruthyList(hotels)
        return_date == Get(state, "return_date", None)
        dep == fromisoformat(state["departure_date"].v)
        ret == fromisoformat(return_date.v)
        nights == IF TruthyStr(return_date) THEN ret.v - dep.v ELSE 1
        approval_prompt == ApprovalPrompt(state, nights)
    IN  IF estimate /\ state["departure_date"] = Absent
        THEN RetRaise("KeyError: departure_date")
        ELSE IF estimate /\ TruthyStr(return_date)
                /\ (~IsVal(state["departure_date"]) \/ dep = Absent \/ ret = Absent)
        THEN RetRaise("ValueError: Invalid isoformat string")
        ELSE IF estimate /\ state["budget_npr"] = Absent
        THEN RetRaise("KeyError: budget_npr")
        ELSE IF estimate /\ ~IsVal(state["budget_npr"])
        THEN RetRaise("TypeError: '<=' not supported between int and NoneType")
        ELSE IF approval_input = Absent
        THEN RetInterrupt(PyStr(approval_prompt))    \* interrupt(approval_prompt)
        ELSE RetUpdate([ approval_prompt |-> V(approval_prompt) ])

\* A variant of the router that sends every decision to the action step.
route_always_to_action(state) == "booking_executor"

route_after_approval(state) ==
    IF TruthyBool(Get(state, "user_approved", None))
    THEN "booking_executor"
    ELSE "constraint_clarifier"

\* flights[flight_idx] if flights else None; Absent stands for the
\* TypeError (index None) or IndexError the subscript raises
Select(options, idx) ==
    IF ~TruthyList(options) THEN None
    ELSE IF ~IsVal(idx) THEN Absent
    ELSE IF idx.v + 1 \in 1..Len(options.v) THEN V(options.v[idx.v + 1])
    ELSE IF -idx.v \in 1..Len(options.v) THEN V(options.v[Len(options.v) + idx.v + 1])
    ELSE Absent

\* wa: the messaging tool's answer, [kind |-> "ok" | "exception", status |-> ..]
reminders_node(state, tools, wa) ==
    LET selected_flight == Select(Get(state, "flight_options", V(<<>>)),
                                  Get(state, "selected_flight_idx", V(0)))
        selected_hotel == Select(Get(state, "hotel_options", V(<<>>)),
                                 Get(state, "selected_hotel_idx", V(0)))
        send == "send_whatsapp_message" \in tools
                /\ TruthyStr(Get(state, "user_phone", None))
        whatsapp_sent == send /\ wa.kind = "ok" /\ wa.status = "sent"
    IN  IF selected_flight = Absent \/ selected_hotel = Absent
        THEN RetRaise("IndexError / TypeError: list index")
        ELSE Ret("update", "", [ whatsapp_sent |-> V(whatsapp_sent) ], Absent,
                 IF send THEN {"send_whatsapp_message"} ELSE {})

----------------------------------------------------------------------------
(* The workflow engine and the wiring of the steps (src/graph.py, not      *)
(* among the source files; specification sections 2, 3, 4.7, 5 and 9).     *)

HumanMessage(content) == [role |-> "user", content |-> content]

\* a partial update merged by key: last write wins, messages concatenate
Merge(state, u) ==
    [ k \in Keys |->
        IF k \notin DOMAIN u THEN state[k]
        ELSE IF k = "messages" /\ IsVal(state[k]) THEN V(state[k].v \o u[k].v)
        ELSE u[k] ]

Entry == "classify_intent"

Steps ==
    { "classify_intent", "unknown_handler", "reminder_graph", "creative_graph",
      "extract_constraints", "validate_budget", "constraint_clarifier",
      "research_executor", "human_approval", "booking_executor" }

\* the step that follows `node`, given what it returned and the state after
\* its update; "raise" when the router itself fails
NextStep(node, ret, after) ==
    IF ret.kind = "command" THEN ret.goto
    ELSE IF node = "classify_intent"
    THEN LET r == route_to_subgraph(after)
         IN  IF r = Absent THEN "raise"
             ELSE IF r.v = "travel_graph" THEN "extract_constraints"
             ELSE r.v
    ELSE IF node = "extract_constraints" THEN "validate_budget"
    ELSE IF node = "research_executor" THEN "human_approval"
    ELSE IF node = "human_approval" THEN route_after_approval(after)
    ELSE END      \* the other steps end the turn; so does a step that names no next step

NoStep == [node |-> "", ret |-> RetNone, resumed |-> Absent, goto |-> "", env |-> <<>>]

\* the engine's handling of what step `node` returned; env: the collaborators'
\* answers the step was given
Apply(node, ret, env) ==
    LET after == Merge(values, ret.update)
        goto == IF ret.kind \in {"raise", "interrupt"} THEN node
                ELSE NextStep(node, ret, after)
        stop == ret.kind \in {"raise", "interrupt"} \/ goto \in {END, "raise"}
    IN  /\ last' = [node |-> node, ret |-> ret, resumed |-> resume, goto |-> goto,
                    env |-> env]
        /\ values' = after
        /\ next' = IF goto = "raise" THEN node ELSE goto
        /\ interrupt' = IF ret.kind = "interrupt" THEN ret.payload ELSE Absent
        /\ running' = ~stop
        /\ resume' = Absent     \* a resume value is for the step that was pending
        /\ outcome' = IF ret.kind = "raise" \/ goto = "raise" THEN "raised"
                      ELSE IF ret.kind = "interrupt" THEN "interrupted"
                      ELSE IF goto = END THEN "completed"
                      ELSE "running"
        /\ UNCHANGED <<turn, store, resp, exec>>

----------------------------------------------------------------------------
(* The bounded sets the collaborators' answers, the requests and the       *)
(* persisted checkpoints are drawn from.                                   *)

MaxMessages == 2        \* turns of one conversation (its message log's length)

Messages == {"yes", "Plan a trip to Pokhara, budget 25k"}

\* section 4.10: the affirmative tokens, compared case-insensitively
Affirmative(text) == text \in {"yes", "Yes", "YES", "y", "approve", "ok"}

NoIntent == "unknown"
IntentOutcomes ==
    {[ok |-> TRUE, intent |-> i] : i \in Intents} \cup {[ok |-> FALSE, intent |-> NoIntent]}

Extracted ==
    [ origin : {None, V("Kathmandu")},
      destination : {None, V("PKR")},
      departure_date : {None, V("tomorrow")},
      return_date : {None},
      budget_npr : {None, V(0), V(5000), V(10000), V(25000)},
      adults : {1},
      missing_fields : {<<>>, <<"origin">>, <<"budget_npr">>} ]

NoExtracted ==
    [ origin |-> None, destination |-> None, departure_date |-> None,
      return_date |-> None, budget_npr |-> None, adults |-> 1,
      missing_fields |-> <<>> ]

ExtractOutcomes ==
    {[ok |-> TRUE, e |-> e] : e \in Extracted} \cup {[ok |-> FALSE, e |-> NoExtracted]}

WeatherList == <<[day |-> "Fri", price |-> 0]>>
FlightList == <<[name |-> "Buddha Air U4 601", price |-> 8000],
                [name |-> "Yeti Airlines YT 671", price |-> 6000]>>
HotelList == <<[name |-> "Hotel Barahi", price |-> 3000]>>

TaskOutcomes(items) ==
    { [kind |-> "ok", list |-> TRUE, value |-> items],
      [kind |-> "ok", list |-> TRUE, value |-> <<>>],
      [kind |-> "ok", list |-> FALSE, value |-> <<>>],
      [kind |-> "timeout", list |-> FALSE, value |-> <<>>],
      [kind |-> "exception", list |-> FALSE, value |-> <<>>] }

ResearchOutcomes ==
    [ weather : TaskOutcomes(WeatherList),
      flights : TaskOutcomes(FlightList),
      hotels : TaskOutcomes(HotelList) ]

ResearchToolSets == SUBSET {"get_weather", "search_flights", "search_hotels"}
MessagingToolSets == SUBSET {"send_whatsapp_message"}

WhatsAppOutcomes ==
    { [kind |-> "ok", status |-> "sent"],
      [kind |-> "ok", status |-> "failed"],
      [kind |-> "exception", status |-> ""] }

\* Checkpoints of a conversation with no step pending: no turn has run yet, or
\* an earlier input left a query in the state.
IdleValues ==
    { EmptyState,
      [EmptyState EXCEPT !["user_query"] = V("")],
      [EmptyState EXCEPT !["user_query"] = V("Weekend getaway under 30k")] }

\* the message log of a conversation in its last turn within the bound
FullLog == [i \in 1..MaxMessages |-> HumanMessage("Weekend getaway under 30k")]

\* The state Budget Validation's rule 3 (specification 4.4) hands to the
\* Research Executor: complete constraints, a budget of at least min_budget.
ResearchEntry ==
    { [EmptyState EXCEPT
         !["user_query"] = V("Weekend getaway under 30k"),
         !["messages"] = V(FullLog),
         !["intent"] = V("travel_planning"),
         !["travel_state"] = FnRef("create_empty_travel_state"),
         !["origin"] = V("KTM"),
         !["destination"] = V("PKR"),
         !["departure_date"] = d,
         !["return_date"] = r,
         !["budget_npr"] = V(25000),
         !["adults"] = V(1),
         !["constraints_complete"] = V(TRUE),
         !["missing_constraints"] = V(<<>>)]
      : d \in {V("2026-01-10"), V("next friday")},
        r \in {None, V("2026-01-12")} }

\* The state route_after_approval hands to the action step: the research
\* results, the approval and the selection.
BookingEntry ==
    { [s EXCEPT
         !["flight_options"] = V(f),
         !["hotel_options"] = V(h),
         !["user_approved"] = V(TRUE),
         !["selected_flight_idx"] = i,
         !["selected_hotel_idx"] = j,
         !["user_phone"] = ph]
      : s \in {x \in ResearchEntry : x["departure_date"] = V("2026-01-10")},
        f \in {<<>>, FlightList},
        h \in {<<>>, HotelList},
        i \in {Absent, None, V(0), V(2)},
        j \in {Absent, V(1)},
        ph \in {Absent, V("+9779800000000")} }

InitCheckpoints ==
    {[values |-> s, next |-> END] : s \in IdleValues}
    \cup {[values |-> s, next |-> "research_executor"] : s \in ResearchEntry}
    \cup {[values |-> s, next |-> "booking_executor"] : s \in BookingEntry}

----------------------------------------------------------------------------
(* main.py: what chat hands to the agent.                                  *)

\* lines 114-116: the input of a new turn
input_state(message) == [ messages |-> V(<<HumanMessage(message)>>) ]

Threads == {"t1", "t2"}

NoCheckpoint == [values |-> EmptyState, next |-> END, interrupt |-> Absent]
NoExchange == [op |-> "none"]

----------------------------------------------------------------------------
(* GraphSpec: one conversation's workflow.                                 *)
(*                                                                         *)
(* NewTurn is ainvoke(input_state) (main.py 118), Resume is                *)
(* ainvoke(Command(resume=message)) (main.py 108); section 6 of the        *)
(* specification says which of the two a request is.  A run executes the   *)
(* pending step, one action per step, until a step ends the turn,          *)
(* interrupts or raises.  A checkpoint whose step raised keeps that step   *)
(* pending (state.next).                                                   *)

GraphInit ==
    /\ \E cp \in InitCheckpoints : values = cp.values /\ next = cp.next
    /\ interrupt = Absent
    /\ running = FALSE
    /\ resume = Absent
    /\ outcome = "none"
    /\ last = NoStep
    /\ turn = [kind |-> "none", input |-> "", at |-> ""]
    /\ store = [t \in Threads |-> NoCheckpoint]
    /\ resp = NoExchange
    /\ exec = NoExec

NewTurn(message) ==
    /\ ~running
    /\ next = END
    /\ Len(Get(values, "messages", V(<<>>)).v) < MaxMessages
    /\ values' = Merge(values, input_state(message))
    /\ next' = Entry
    /\ interrupt' = Absent
    /\ running' = TRUE
    /\ resume' = Absent
    /\ outcome' = "running"
    /\ last' = NoStep
    /\ turn' = [kind |-> "new", input |-> message, at |-> Entry]
    /\ UNCHANGED <<store, resp, exec>>

\* A variant of the resume that goes back to the research step when the run
\* is suspended at approval.
ResumeRerunningResearch(message) ==
    /\ ~running
    /\ next # END
    /\ next' = IF next = "human_approval" THEN "research_executor" ELSE next
    /\ interrupt' = IF next = "human_approval" THEN Absent ELSE interrupt
    /\ running' = TRUE
    /\ resume' = IF next = "human_approval" THEN Absent ELSE V(message)
    /\ outcome' = "running"
    /\ last' = NoStep
    /\ turn' = [kind |-> "resume", input |-> message, at |-> next]
    /\ UNCHANGED <<values, store, resp, exec>>

Resume(message) ==
    /\ ~running
    /\ next # END
    /\ running' = TRUE
    /\ resume' = V(message)
    /\ outcome' = "running"
    /\ last' = NoStep
    /\ turn' = [kind |-> "resume", input |-> message, at |-> next]
    /\ UNCHANGED <<values, next, interrupt, store, resp, exec>>

At(node) == running /\ next = node

ClassifyIntent ==
    /\ At("classify_intent")
    /\ \E llm \in IntentOutcomes :
          Apply("classify_intent", classify_intent_node(values, llm), llm)

UnknownHandler ==
    /\ At("unknown_handler")
    /\ Apply("unknown_handler", unknown_handler_node(values), <<>>)

\* the reminder and creative sub-workflows are not among the source files
OtherSubgraph ==
    /\ \E node \in {"reminder_graph", "creative_graph"} :
          /\ At(node)
          /\ Apply(node, RetUpdate(NoUpdate), <<>>)

ExtractConstraints ==
    /\ At("extract_constraints")
    /\ \E llm \in ExtractOutcomes :
          Apply("extract_constraints", extract_constraints_node(values, llm), llm)

ValidateBudget ==
    /\ At("validate_budget")
    /\ Apply("validate_budget", validate_budget_node(values), <<>>)

ConstraintClarifier ==
    /\ At("constraint_clarifier")
    /\ Apply("constraint_clarifier", constraint_clarifier_node(values), <<>>)

ResearchExecutor ==
    /\ At("research_executor")
    /\ \E tools \in ResearchToolSets, out \in ResearchOutcomes :
          Apply("research_executor", research_executor_node(values, tools, out),
                [tools |-> tools, out |-> out])

HumanApproval ==
    /\ At("human_approval")
    /\ Apply("human_approval", human_approval_node(values, resume), <<>>)

BookingExecutor ==
    /\ At("booking_executor")
    /\ \E tools \in MessagingToolSets, wa \in WhatsAppOutcomes :
          Apply("booking_executor", reminders_node(values, tools, wa),
                [tools |-> tools, wa |-> wa])

GraphNext ==
    \/ \E m \in Messages : NewTurn(m)
    \/ \E m \in Messages : Resume(m)
    \/ ClassifyIntent
    \/ UnknownHandler
    \/ OtherSubgraph
    \/ ExtractConstraints
    \/ ValidateBudget
    \/ ConstraintClarifier
    \/ ResearchExecutor
    \/ HumanApproval
    \/ BookingExecutor

GraphSpec == GraphInit /\ [][GraphNext]_vars

----------------------------------------------------------------------------
(* The agent object as main.py uses it.  The engine keys its checkpoints   *)
(* by config["configurable"]["thread_id"] (as get_history passes it); a    *)
(* config that names no thread there makes aget_state and ainvoke raise.   *)

ThreadIds == Threads \cup {"uuid4"}

ThreadOf(config) ==
    IF "configurable" \in DOMAIN config /\ "thread_id" \in DOMAIN config["configurable"]
    THEN V(config["configurable"]["thread_id"])
    ELSE Absent

\* StateSnapshot: values, next (the pending steps) and tasks[..].interrupts
Snapshot(cp) ==
    [ values |-> cp.values,
      next |-> IF cp.next = END THEN <<>> ELSE <<cp.next>>,
      tasks |-> IF cp.next = END THEN <<>>
                ELSE <<[ interrupts |-> IF cp.interrupt = Absent THEN <<>>
                                        ELSE <<[value |-> cp.interrupt.v]>> ]>> ]

\* Absent stands for the exception
aget_state(st, config) ==
    IF ThreadOf(config) = Absent THEN Absent
    ELSE V(Snapshot(st[ThreadOf(config).v]))

\* the collaborators' answers of one run, by step
Oracles ==
    [ intent : {x \in IntentOutcomes : x.intent \in {"travel_planning", "unknown"}},
      extract : {x \in ExtractOutcomes :
                    /\ x.ok
                    /\ None \notin {x.e.origin, x.e.destination, x.e.departure_date}
                    /\ x.e.budget_npr \in {V(5000), V(25000)}
                    /\ x.e.missing_fields = <<>>},
      tools : {ToolNames},
      research : {r \in ResearchOutcomes :
                    \A k \in {"weather", "flights", "hotels"} :
                        r[k].kind = "ok" /\ r[k].list /\ r[k].value # <<>>},
      wa : {x \in WhatsAppOutcomes : x.kind = "ok"} ]

StepReturn(node, state, approval_input, o) ==
    CASE node = "classify_intent" -> classify_intent_node(state, o.intent)
      [] node = "unknown_handler" -> unknown_handler_node(state)
      [] node = "extract_constraints" -> extract_constraints_node(state, o.extract)
      [] node = "validate_budget" -> validate_budget_node(state)
      [] node = "constraint_clarifier" -> constraint_clarifier_node(state)
      [] node = "research_executor" -> research_executor_node(state, o.tools, o.research)
      [] node = "human_approval" -> human_approval_node(state, approval_input)
      [] node = "booking_executor" -> reminders_node(state, o.tools, o.wa)
      [] OTHER -> RetUpdate(NoUpdate)

\* a run of the workflow from the pending step `node` to the turn's end, an
\* interrupt or an exception: the checkpoint it leaves and how it ended
RECURSIVE RunFrom(_, _, _, _)
RunFrom(state, node, approval_input, o) ==
    IF node = END
    THEN [values |-> state, next |-> END, interrupt |-> Absent, raised |-> FALSE]
    ELSE LET ret == StepReturn(node, state, approval_input, o)
             after == Merge(state, ret.update)
             goto == IF ret.kind \in {"raise", "interrupt"} THEN node
                     ELSE NextStep(node, ret, after)
         IN  IF ret.kind = "raise" \/ goto = "raise"
             THEN [values |-> state, next |-> node, interrupt |-> Absent, raised |-> TRUE]
             ELSE IF ret.kind = "interrupt"
             THEN [values |-> state, next |-> node, interrupt |-> ret.payload, raised |-> FALSE]
             ELSE RunFrom(after, goto, Absent, o)

\* the store and the outcome a run leaves
Ran(st, thread_id, run) ==
    [ raised |-> run.raised,
      cp |-> [values |-> run.values, next |-> run.next, interrupt |-> run.interrupt],
      store |-> [st EXCEPT ![thread_id] =
                    [values |-> run.values, next |-> run.next, interrupt |-> run.interrupt]] ]

\* ainvoke(input, config): input is [resume |-> ..] for Command(resume=..),
\* [update |-> ..] for a new turn's input_state
ainvoke(st, input, config, o) ==
    IF ThreadOf(config) = Absent
    THEN [raised |-> TRUE, cp |-> NoCheckpoint, store |-> st]
    ELSE Ran(st, ThreadOf(config).v,
             RunFrom(IF "resume" \in DOMAIN input
                     THEN st[ThreadOf(config).v].values
                     ELSE Merge(st[ThreadOf(config).v].values, input.update),
                     IF "resume" \in DOMAIN input THEN st[ThreadOf(config).v].next ELSE Entry,
                     IF "resume" \in DOMAIN input THEN V(input.resume) ELSE Absent,
                     o))

----------------------------------------------------------------------------
(* main.py: the handlers                                                   *)

ChatConfig(thread_id) == [ configuration |-> [thread_id |-> thread_id] ]
HistoryConfig(thread_id) == [ configurable |-> [thread_id |-> thread_id] ]

DefaultResponse == "I've processed your request."

\* No step appends an AIMessage to messages, so the loop over them finds none.
_extract_response(state) ==
    LET final == Get(state, "final_response", None)
    IN  IF TruthyStr(final) THEN Text(final.v) ELSE Text(DefaultResponse)

\* None as the result: no task carries an interrupt
_get_interrupt_data(snapshot) ==
    LET hits == {i \in 1..Len(snapshot.tasks) : snapshot.tasks[i].interrupts # <<>>}
        first == CHOOSE i \in hits : \A j \in hits : i <= j
    IN  IF hits = {} THEN None
        ELSE V(snapshot.tasks[first].interrupts[1].value)

\* bool(state.next) of a snapshot; the lookup that raised counts as False
Pending(snapshot) ==
    IF snapshot = Absent THEN FALSE ELSE snapshot.v.next # <<>>

\* lines 133-144: the ChatResponse, from the run's result, the state read
\* after it and the interrupt payload found there
chat_response(said, result, still_interrupted, interrupt_payload) ==
    IF result.raised
    THEN [ store |-> result.store,
           resp |-> said @@ [ status |-> 500, response |-> Text("Agent error"),
                              interrupted |-> FALSE, interrupt_data |-> None ] ]
    \* ChatResponse.interrupt_data is Optional[dict]: any other payload
    \* fails the response model's validation
    ELSE IF IsVal(interrupt_payload) /\ interrupt_payload.v.type # "dict"
    THEN [ store |-> result.store,
           resp |-> said @@ [ status |-> 500, response |-> Text("ValidationError"),
                              interrupted |-> FALSE, interrupt_data |-> None ] ]
    ELSE [ store |-> result.store,
           resp |-> said @@
             [ status |-> 200,
               response |->
                 IF still_interrupted /\ IsVal(interrupt_payload)
                    /\ "prompt" \in DOMAIN interrupt_payload.v.dict
                 THEN interrupt_payload.v.dict["prompt"]
                 ELSE _extract_response(result.cp.values),
               interrupted |-> still_interrupted,
               interrupt_data |-> interrupt_payload ] ]

\* lines 124-131: the state after the run, whether a step is still pending
\* and the payload of its interrupt
chat_after(said, result, post_state) ==
    chat_response(said, result, Pending(post_state),
                  IF Pending(post_state) THEN _get_interrupt_data(post_state.v) ELSE None)

\* lines 105-121: resume the pending step or start a new turn; a run that
\* raises is answered with a 500
chat_run(said, config, result) ==
    chat_after(said, result,
               IF result.raised THEN Absent ELSE aget_state(result.store, config))

chat_dispatch(st, request, thread_id, config, is_interrupted, o) ==
    chat_run([ op |-> "chat", thread_id |-> thread_id, message |-> request.message,
               resumed |-> is_interrupted ],
             config,
             ainvoke(st,
                     IF is_interrupted THEN [resume |-> request.message]
                     ELSE [update |-> input_state(request.message)],
                     config, o))

\* lines 95-103: the thread id, the config and the lookup of the pending step
chat_lookup(st, request, thread_id, o) ==
    chat_dispatch(st, request, thread_id, ChatConfig(thread_id),
                  Pending(aget_state(st, ChatConfig(thread_id))), o)

\* request: [message |-> .., thread_id |-> None or V(id)]; o: the collaborators'
\* answers, should the workflow run.  The result is the exchange and the
\* store the request leaves.
chat(st, request, o) ==
    chat_lookup(st, request,
                IF TruthyStr(request.thread_id) THEN request.thread_id.v ELSE "uuid4", o)

\* lines 159-167: role and content of each message
Serialized(messages) ==
    [ i \in 1..Len(messages) |->
        [ role |-> IF messages[i].role = "user" THEN "user" ELSE "assistant",
          content |-> messages[i].content ] ]

get_history(st, thread_id) ==
    LET state == aget_state(st, HistoryConfig(thread_id))
    IN  IF state = Absent
        THEN [ op |-> "get_history", thread_id |-> thread_id, status |-> 404,
               messages |-> <<>> ]
        ELSE [ op |-> "get_history", thread_id |-> thread_id, status |-> 200,
               messages |-> Serialized(Get(state.v.values, "messages", V(<<>>)).v) ]

clear_thread(thread_id) ==
    [ op |-> "clear_thread", thread_id |-> thread_id, status |-> 200, cleared |-> TRUE ]

----------------------------------------------------------------------------
(* Spec: the HTTP handlers over the state store.  The store outlives the   *)
(* process (specification section 1): the checkpoints it holds when the    *)
(* application starts are drawn from those the workflow leaves behind.     *)

\* the research results the approval step presents
ApprovalEntry ==
    { [s EXCEPT !["weather_data"] = V(WeatherList),
                !["flight_options"] = V(FlightList),
                !["hotel_options"] = V(h)]
      : s \in {x \in ResearchEntry : x["departure_date"] = V("2026-01-10")},
        h \in {<<>>, HotelList} }

Suspended(s) ==
    [ values |-> s, next |-> "human_approval",
      interrupt |-> human_approval_node(s, Absent).payload ]

StoreCheckpoints ==
    {NoCheckpoint}
    \cup { [ values |-> [EmptyState EXCEPT
                           !["messages"] = V(<<HumanMessage("Hello")>>),
                           !["intent"] = V("unknown"),
                           !["final_response"] = unknown_handler_node(EmptyState).update.final_response],
             next |-> END, interrupt |-> Absent ] }
    \cup { [ values |-> [EmptyState EXCEPT !["messages"] = V(<<HumanMessage("Hello")>>)],
             next |-> Entry, interrupt |-> Absent ] }
    \cup { Suspended(s) : s \in ApprovalEntry }

Requests == [ message : Messages, thread_id : {None} \cup {V(t) : t \in Threads} ]

Init ==
    /\ store \in [ThreadIds -> StoreCheckpoints]
    /\ store["uuid4"] = NoCheckpoint
    /\ resp = NoExchange
    /\ values = EmptyState
    /\ next = END
    /\ interrupt = Absent
    /\ running = FALSE
    /\ resume = Absent
    /\ outcome = "none"
    /\ last = NoStep
    /\ turn = [kind |-> "none", input |-> "", at |-> ""]
    /\ exec = NoExec

Chat ==
    /\ \E request \in Requests, o \in Oracles :
          LET r == chat(store, request, o)
          IN  /\ store' = r.store
              /\ resp' = r.resp
    /\ UNCHANGED gvars
    /\ UNCHANGED exec

GetHistory ==
    /\ \E thread_id \in Threads : resp' = get_history(store, thread_id)
    /\ UNCHANGED store
    /\ UNCHANGED gvars
    /\ UNCHANGED exec

ClearThread ==
    /\ \E thread_id \in Threads : resp' = clear_thread(thread_id)
    /\ UNCHANGED store
    /\ UNCHANGED gvars
    /\ UNCHANGED exec

Next ==
    \/ Chat
    \/ GetHistory
    \/ ClearThread

Spec == Init /\ [][Next]_vars

----------------------------------------------------------------------------
(* ExecSpec: one invocation of research_executor_node, await by await      *)
(* (Travel.py 237-314).  The three entries of `tasks` are coroutine        *)
(* objects: a coroutine does not run before it is awaited.  The loop of    *)
(* lines 295-303 awaits them one after the other under                     *)
(* asyncio.wait_for(task, timeout=30).  Time is in seconds; exec.clock is  *)
(* the time since the step was entered.                                    *)

timeout == 30

Slots == <<"weather", "flights", "hotels">>

\* seconds a tool call takes when it answers within the timeout
Durations == {0, 20}

\* the outcome of each tool call: its list, an exception, or no answer in time
ExecOutcomes ==
    { o \in ResearchOutcomes :
        \A i \in DOMAIN Slots :
            o[Slots[i]].kind = "ok" => (o[Slots[i]].list /\ o[Slots[i]].value # <<>>) }

ExecEntry == {s \in ResearchEntry : s["departure_date"] = V("2026-01-10")}

\* lines 241-291: the slot's tool call is built, or it is the placeholder
Built(e, i) ==
    CASE i = 1 -> "get_weather" \in e.tools
      [] i = 2 -> "search_flights" \in e.tools
      [] i = 3 -> "search_hotels" \in e.tools
                  /\ TruthyStr(Get(e.state, "return_date", None))

\* what awaiting the slot's coroutine gives, and after how long
Outcome(e, i) == IF Built(e, i) THEN e.out[Slots[i]] ELSE Placeholder
Need(e, i) == IF Built(e, i) THEN e.need[i] ELSE 0

ExecInit ==
    /\ \E s \in ExecEntry, tools \in ResearchToolSets, out \in ExecOutcomes,
          need \in [DOMAIN Slots -> Durations],
          cancellable \in [DOMAIN Slots -> BOOLEAN] :
          exec = [ pc |-> "build", state |-> s, tools |-> tools, out |-> out,
                   need |-> need, cancellable |-> cancellable, clock |-> 0, idx |-> 0,
                   tasks |-> <<>>, results |-> <<>>, update |-> NoUpdate ]
    /\ values = EmptyState
    /\ next = END
    /\ interrupt = Absent
    /\ running = FALSE
    /\ resume = Absent
    /\ outcome = "none"
    /\ last = NoStep
    /\ turn = [kind |-> "none", input |-> "", at |-> ""]
    /\ store = [t \in Threads |-> NoCheckpoint]
    /\ resp = NoExchange

\* lines 237-291: the coroutine objects are created, none is started
BuildTasks ==
    /\ exec.pc = "build"
    /\ exec' = [exec EXCEPT
                  !.pc = "loop",
                  !.idx = 1,
                  !.tasks = [i \in DOMAIN Slots |->
                               [status |-> "created", started |-> 0, ended |-> 0]]]
    /\ UNCHANGED <<gvars, hvars>>

\* line 297: wait_for starts the coroutine of this iteration
AwaitTask ==
    /\ exec.pc = "loop"
    /\ exec.idx \in DOMAIN Slots
    /\ exec.tasks[exec.idx].status = "created"
    /\ exec' = [exec EXCEPT !.tasks[exec.idx].status = "running",
                            !.tasks[exec.idx].started = exec.clock]
    /\ UNCHANGED <<gvars, hvars>>

\* the end of one iteration: the task's new status, the time it took and the
\* entry appended to results
EndIteration(status, took, result) ==
    exec' = [exec EXCEPT !.tasks[exec.idx].status = status,
                         !.tasks[exec.idx].ended = exec.clock + took,
                         !.clock = exec.clock + took,
                         !.results = Append(exec.results, result),
                         !.idx = exec.idx + 1]

Awaiting ==
    /\ exec.pc = "loop"
    /\ exec.idx \in DOMAIN Slots
    /\ exec.tasks[exec.idx].status = "running"

\* line 298: the awaited task returned
TaskReturns ==
    /\ Awaiting
    /\ Outcome(exec, exec.idx).kind = "ok"
    /\ EndIteration("done", Need(exec, exec.idx), TaskResult(Outcome(exec, exec.idx)))
    /\ UNCHANGED <<gvars, hvars>>

\* lines 301-303: the awaited task raised
TaskRaises ==
    /\ Awaiting
    /\ Outcome(exec, exec.idx).kind = "exception"
    /\ EndIteration("failed", Need(exec, exec.idx), TaskResult(Outcome(exec, exec.idx)))
    /\ UNCHANGED <<gvars, hvars>>

\* line 297: no answer within the timeout.  wait_for cancels the task and
\* waits until the cancellation is complete before it raises TimeoutError.
TaskTimesOut ==
    /\ Awaiting
    /\ Outcome(exec, exec.idx).kind = "timeout"
    /\ exec' = [exec EXCEPT !.tasks[exec.idx].status = "cancelling",
                            !.clock = exec.clock + timeout]
    /\ UNCHANGED <<gvars, hvars>>

\* lines 299-300: the cancelled task has ended (a call that is cancellable
\* ends at once; one that suppresses its cancellation never does), wait_for
\* raises TimeoutError
CancellationCompletes ==
    /\ exec.pc = "loop"
    /\ exec.idx \in DOMAIN Slots
    /\ exec.tasks[exec.idx].status = "cancelling"
    /\ exec.cancellable[exec.idx]
    /\ EndIteration("cancelled", 0, TaskResult(Outcome(exec, exec.idx)))
    /\ UNCHANGED <<gvars, hvars>>

\* lines 305-314
ReturnAggregate ==
    /\ exec.pc = "loop"
    /\ exec.idx = Len(Slots) + 1
    /\ exec' = [exec EXCEPT
                  !.pc = "returned",
                  !.update = [ weather_data |-> V(AsList(exec.results[1])),
                               flight_options |-> V(AsList(exec.results[2])),
                               hotel_options |-> V(AsList(exec.results[3])) ]]
    /\ UNCHANGED <<gvars, hvars>>

ExecNext ==
    \/ BuildTasks
    \/ AwaitTask
    \/ TaskReturns
    \/ TaskRaises
    \/ TaskTimesOut
    \/ CancellationCompletes
    \/ ReturnAggregate

ExecSpec == ExecInit /\ [][ExecNext]_vars

\* the event loop runs the step's coroutine whenever it can proceed
FairExecSpec == ExecSpec /\ WF_vars(ExecNext)

----------------------------------------------------------------------------
(* The properties.  Those of the workflow's steps are stated over          *)
(* GraphSpec, those of the HTTP handlers over Spec.  `last` is the step    *)
(* that ran last and what the engine did with its result.                  *)

Budget == Get(values, "budget_npr", V(0))      \* Budget Validation leaves it as it read it

\* C1: every chat request that carries the id of a conversation whose workflow
\* is suspended (a step is pending for it) is delivered as the resume value of
\* the pending step, not started as a new turn.
C1_SuspendedIsResumed ==
    [][ (resp'.op = "chat" /\ resp' # resp /\ store[resp'.thread_id].next # END)
            => resp'.resumed ]_vars

\* C2: after the approval step consumes an affirmative resume value,
\* route_after_approval returns the action step.
C2_AffirmativeReachesAction ==
    (/\ last.node = "human_approval"
     /\ last.resumed # Absent
     /\ Affirmative(last.resumed.v)
     /\ last.ret.kind = "update")
        => (last.goto = "booking_executor" /\ next = "booking_executor")

\* C3: resuming the approval step with a non-affirmative value routes to the
\* Constraint Clarifier and never to the action step; so does the router for
\* every state whose user_approved is false or absent.
C3_NonAffirmativeToClarifier ==
    /\ (/\ last.node = "human_approval"
        /\ last.resumed # Absent
        /\ ~Affirmative(last.resumed.v)
        /\ last.ret.kind = "update")
          => (last.goto = "constraint_clarifier" /\ next = "constraint_clarifier")
    /\ ~TruthyBool(Get(values, "user_approved", None))
          => route_after_approval(values) = "constraint_clarifier"

C3_Witness ==
    /\ last.node = "human_approval"
    /\ last.resumed # Absent
    /\ ~Affirmative(last.resumed.v)
    /\ last.ret.kind = "update"
    /\ Get(values, "user_approved", Absent) = Absent
    /\ next = "constraint_clarifier"

\* C4: once the approval step has suspended, no step of the workflow executes
\* and the state does not change until a resume value is delivered; exactly
\* one value is delivered, to the approval step, which runs next.
C4_NoStepUntilResume ==
    [][ /\ (last.node = "human_approval" /\ last.resumed = Absent)
            => \/ last' = last
               \/ /\ last' = NoStep
                  /\ turn'.kind = "resume"
                  /\ resume' # Absent
                  /\ values' = values
                  /\ next' = "human_approval"
        /\ (interrupt # Absent /\ resume # Absent)
            => \/ resume' = resume /\ last' = last
               \/ last'.node = "human_approval" /\ last'.resumed = resume /\ resume' = Absent
      ]_vars

C4_Witness ==
    /\ interrupt # Absent
    /\ next = "human_approval"
    /\ resume # Absent
    /\ running
    /\ last = NoStep

\* C5: the response of a chat turn that ended suspended has the suspend prompt as
\* its text, its suspended flag set and the raw suspend payload attached.
\* Checked on the response chat builds (main.py 124-144) from each checkpoint
\* of the store that holds an interrupt.
C5_SuspendedResponse ==
    \A t \in Threads :
        store[t].interrupt # Absent
            => LET r == chat_after([op |-> "chat", thread_id |-> t, message |-> "yes",
                                    resumed |-> FALSE],
                                   [raised |-> FALSE, cp |-> store[t], store |-> store],
                                   aget_state(store, HistoryConfig(t))).resp
               IN  /\ r.status = 200
                   /\ r.interrupted
                   /\ r.response = store[t].interrupt.v.text
                   /\ r.interrupt_data = store[t].interrupt

\* C6: the input of a new turn is the query the Intent Classifier reads
\* (state["user_query"]), and the classifier runs on it.
C6_InputIsQuery ==
    (turn.kind = "new" /\ last.node = "classify_intent")
        => (last.ret.kind # "raise" /\ values["user_query"] = V(turn.input))

\* C7: for a budget below the minimum (10000) Budget Validation routes to the
\* terminal outcome, never to research or the clarifier, whatever
\* constraints_complete is; its update sets budget_feasible to false and an
\* error that mentions 10000.
C7_LowBudgetTerminal ==
    (last.node = "validate_budget" /\ IsVal(Budget) /\ Budget.v < 10000)
        => /\ last.ret.kind = "command"
           /\ last.ret.goto = END
           /\ next = END
           /\ ~running
           /\ last.ret.update["budget_feasible"] = V(FALSE)
           /\ \E i \in DOMAIN last.ret.update["errors"].v :
                 last.ret.update["errors"].v[i].n = 10000
           /\ values["budget_feasible"] = V(FALSE)

C7_Witness ==
    /\ last.node = "validate_budget"
    /\ Budget = V(5000)
    /\ values["constraints_complete"] = V(TRUE)
    /\ next = END

\* C8: for a budget at or above the minimum and complete constraints, Budget
\* Validation issues a control directive whose next step is the Research
\* Executor.
C8_FeasibleToResearch ==
    (/\ last.node = "validate_budget"
     /\ IsVal(Budget) /\ Budget.v >= min_budget
     /\ values["constraints_complete"] = V(TRUE))
        => (/\ last.ret.kind = "command"
            /\ last.ret.goto = "research_executor"
            /\ next = "research_executor")

\* C9: for a budget not below the minimum and constraints_complete false,
\* Budget Validation routes to the Constraint Clarifier with no state update.
C9_IncompleteToClarifier ==
    (/\ last.node = "validate_budget"
     /\ IsVal(Budget) /\ Budget.v >= min_budget
     /\ values["constraints_complete"] = V(FALSE))
        => (/\ last.ret.kind = "command"
            /\ last.ret.goto = "constraint_clarifier"
            /\ last.ret.update = NoUpdate
            /\ next = "constraint_clarifier")

C9_Witness ==
    /\ last.node = "validate_budget"
    /\ Budget = V(10000)
    /\ values["constraints_complete"] = V(FALSE)
    /\ next = "constraint_clarifier"

\* C10: after Constraint Extraction, whatever the classifier answered,
\* constraints_complete is true iff missing_fields is empty and origin,
\* destination, departure_date and budget are all non-null.
C10_CompleteIffAllPresent ==
    (last.node = "extract_constraints" /\ last.ret.kind = "update")
        => (values["constraints_complete"] = V(TRUE)
              <=> /\ values["missing_constraints"] = V(<<>>)
                  /\ \A i \in DOMAIN RequiredFields : values[RequiredFields[i]] # None)

\* C11: when the classifier collaborator fails during Constraint Extraction,
\* the step does not raise: its update sets constraints_complete to false, the
\* missing fields to origin, destination, departure_date and budget, and errors
\* to the prior list extended by one error.
C11_ExtractionFailureReported ==
    (/\ last.node = "extract_constraints"
     /\ TruthyStr(Get(values, "user_query", V("")))
     /\ ~last.env.ok)
        => /\ last.ret.kind = "update"
           /\ last.ret.update["constraints_complete"] = V(FALSE)
           /\ last.ret.update["missing_constraints"] = V(RequiredFields)
           /\ last.ret.update["errors"].v # <<>>

\* C12: route_to_subgraph is total: for every state, one without an intent
\* included, it returns one of the four step names without error, and
\* unknown_handler for an unrecognized or absent intent.
C12_RouterTotal ==
    /\ route_to_subgraph(values) \in
          {V("travel_graph"), V("reminder_graph"), V("creative_graph"), V("unknown_handler")}
    /\ (~IsVal(values["intent"]) \/ values["intent"].v \notin DOMAIN routing_map)
          => route_to_subgraph(values) = V("unknown_handler")

\* C13: on a classifier failure the Intent Classifier does not raise: it sets
\* intent to unknown and records the failure text in the state, and the
\* router's next step is unknown_handler.
C13_ClassifierFailureRecorded ==
    (/\ last.node = "classify_intent"
     /\ last.ret.kind = "update"
     /\ ~last.env.ok)
        => /\ last.ret.update["intent"] = V("unknown")
           /\ next = "unknown_handler"
           /\ \E k \in DOMAIN last.ret.update : k \in {"error", "errors", "final_response"}

\* The Research Executor's inputs are those it can build its tasks from: the
\* keys it subscripts are present, the budget is a number and, where the
\* hotel task needs the nights, both dates are ISO dates.
ResearchInputsOk ==
    /\ \A k \in {"origin", "destination", "departure_date", "budget_npr"} : values[k] # Absent
    /\ IsVal(values["budget_npr"])
    /\ TruthyStr(Get(values, "return_date", None))
          => /\ IsVal(values["departure_date"])
             /\ fromisoformat(values["departure_date"].v) # Absent
             /\ fromisoformat(values["return_date"].v) # Absent

\* the list a slot must hold: the task's list if the task was built and
\* succeeded with a list, the empty list otherwise
SlotOf(built, t) == IF built /\ t.kind = "ok" /\ t.list THEN t.value ELSE <<>>

\* C14: for every combination of the three tasks' outcomes (success, timeout,
\* exception, tool unavailable) the Research Executor returns an aggregate
\* of exactly three slots, each holding its own task's list if that task
\* succeeded with a list and the empty list otherwise.
C14_ThreeSlotsPerTask ==
    (last.node = "research_executor" /\ ResearchInputsOk)
        => /\ last.ret.kind = "update"
           /\ DOMAIN last.ret.update = {"weather_data", "flight_options", "hotel_options"}
           /\ last.ret.update["weather_data"] =
                 V(SlotOf("get_weather" \in last.env.tools, last.env.out.weather))
           /\ last.ret.update["flight_options"] =
                 V(SlotOf("search_flights" \in last.env.tools, last.env.out.flights))
           /\ last.ret.update["hotel_options"] =
                 V(SlotOf("search_hotels" \in last.env.tools
                              /\ TruthyStr(Get(values, "return_date", None)),
                          last.env.out.hotels))

C14_Witness ==
    /\ last.node = "research_executor"
    /\ ResearchInputsOk
    /\ last.env.tools = {"get_weather", "search_flights", "search_hotels"}
    /\ last.env.out.weather.kind = "timeout"
    /\ last.env.out.flights.kind = "exception"
    /\ values["weather_data"] = V(<<>>)
    /\ values["flight_options"] = V(<<>>)
    /\ values["hotel_options"] = V(HotelList)

\* C16: when the weather tool throws and the flight and hotel tools succeed,
\* the result has an empty weather list, the flight and hotel lists, and an
\* entry in errors for the weather failure.
C16_FailureLeavesError ==
    (/\ last.node = "research_executor"
     /\ last.ret.kind = "update"
     /\ last.env.tools = {"get_weather", "search_flights", "search_hotels"}
     /\ TruthyStr(Get(values, "return_date", None))
     /\ last.env.out.weather.kind = "exception"
     /\ last.env.out.flights = [kind |-> "ok", list |-> TRUE, value |-> FlightList]
     /\ last.env.out.hotels = [kind |-> "ok", list |-> TRUE, value |-> HotelList])
        => /\ last.ret.update["weather_data"] = V(<<>>)
           /\ last.ret.update["flight_options"] = V(FlightList)
           /\ last.ret.update["hotel_options"] = V(HotelList)
           /\ "errors" \in DOMAIN last.ret.update
           /\ last.ret.update["errors"].v # <<>>

\* C17: the Notification/Action step invokes the messaging tool only if a
\* contact handle is present and the tool is available; with no contact handle
\* the tool is not invoked, whatsapp_sent is false and no error is raised.
C17_NoHandleNoSend ==
    /\ (last.node = "booking_executor" /\ "send_whatsapp_message" \in last.ret.calls)
          => /\ TruthyStr(Get(values, "user_phone", None))
             /\ "send_whatsapp_message" \in last.env.tools
    /\ (last.node = "booking_executor" /\ ~TruthyStr(Get(values, "user_phone", None)))
          => /\ last.ret.kind = "update"
             /\ last.ret.calls = {}
             /\ last.ret.update["whatsapp_sent"] = V(FALSE)

\* C18: the Notification/Action step never raises: for any option lists, any
\* selected indices (unset, null, out of range) and any outcome of the
\* messaging tool it returns an update whose whatsapp_sent is a boolean.
C18_ActionNeverRaises ==
    last.node = "booking_executor"
        => /\ last.ret.kind = "update"
           /\ last.ret.update["whatsapp_sent"] \in {V(TRUE), V(FALSE)}

\* C19: after a clear request for a conversation id the store holds no
\* accumulated state and no pending step for that id, so that the next chat
\* request with the id starts fresh.
C19_ClearedStartsFresh ==
    resp.op = "clear_thread" => store[resp.thread_id] = NoCheckpoint

ActiveSubState(k) == values[k] \notin {Absent, None}

\* C20: the shared state holds at most one active sub-state: the sub-state
\* of an earlier turn's intent is reset or replaced when a turn classifies
\* another intent.
C20_OneActiveSubState ==
    /\ ~(ActiveSubState("travel_state") /\ ActiveSubState("reminder_state"))
    /\ (last.node = "classify_intent" /\ values["intent"] = V("reminder"))
          => ~ActiveSubState("travel_state")
    /\ (last.node = "classify_intent" /\ values["intent"] = V("travel_planning"))
          => ~ActiveSubState("reminder_state")

Finished(i) == exec.tasks[i].status \in {"done", "failed", "cancelled"}

\* what a task takes by itself: its duration, at most the timeout
Alone(i) == IF Outcome(exec, i).kind = "timeout" THEN timeout ELSE Need(exec, i)

\* C15: the Research Executor launches its tasks concurrently: every task is
\* started before any is awaited to completion, all start when the step is
\* entered, and each completes after the time it takes by itself, whatever
\* the others take.
C15_TasksRunConcurrently ==
    exec.pc \in {"loop", "returned"}
        => \A i \in DOMAIN Slots :
              Finished(i)
                => /\ \A j \in DOMAIN Slots : exec.tasks[j].status # "created"
                   /\ exec.tasks[i].started = 0
                   /\ exec.tasks[i].ended = Alone(i)

\* C21: when the Intent Classifier classifies a query as travel_planning, the
\* state holds a travel sub-state equal to the default record built by
\* create_empty_travel_state.
C21_TravelStateIsDefault ==
    (/\ last.node = "classify_intent"
     /\ last.ret.kind = "update"
     /\ last.ret.update["intent"] = V("travel_planning"))
        => values["travel_state"] = V(create_empty_travel_state)

\* the workflow is suspended at the approval step, awaiting a resume value
AwaitingApproval == interrupt # Absent /\ next = "human_approval" /\ ~running

\* C23: approval_prompt is present in the state iff the workflow is suspended
\* at the approval step awaiting a resume value.
C23_PromptIffAwaiting ==
    IsVal(values["approval_prompt"]) <=> AwaitingApproval

Errors(state) == Get(state, "errors", V(<<>>)).v

IsPrefix(a, b) == Len(a) <= Len(b) /\ SubSeq(b, 1, Len(a)) = a

C26_ValidationNeverRaises ==
    last.node = "validate_budget"
        => /\ last.ret.kind # "raise"
           /\ ~IsVal(Budget)
                => /\ last.ret.kind = "command"
                   /\ last.ret.goto \in {END, "constraint_clarifier", "research_executor"}

\* C22: a resume of a conversation suspended at the approval step continues
\* at the approval step with the supplied value: classification, extraction,
\* budget validation and research do not run in the resumed turn, and the
\* resume and the approval step leave every other key of the state as it was.
C22_ResumeContinuesAtApproval ==
    [][ (turn'.kind = "resume" /\ turn'.at = "human_approval")
            => /\ next' \in {"human_approval", "constraint_clarifier", "booking_executor", END}
               /\ last'.node \in {"", "human_approval", "constraint_clarifier",
                                  "booking_executor"}
               /\ last'.node = "human_approval" => last'.resumed = V(turn'.input)
               /\ last'.node \in {"", "human_approval"}
                     => \A k \in Keys \ {"approval_prompt"} : values'[k] = values[k]
      ]_vars

C22_Witness ==
    /\ turn.kind = "resume"
    /\ turn.at = "human_approval"
    /\ last.node = "human_approval"
    /\ last.resumed = V(turn.input)
    /\ last.ret.kind = "update"
    /\ values["flight_options"] = V(FlightList)
    /\ values["budget_npr"] = V(25000)

\* C25: every invocation of the Research Executor eventually returns its
\* aggregate, whichever of the research tools never respond.
C25_ExecutorReturns == <>(exec.pc = "returned")

====
